---- MODULE Spec2Model ----
(***************************************************************************)
(* Model of packages/core/src/lib/editor/withSlate.ts: the construction    *)
(* pipeline of withSlate / createSlateEditor and the option lookup         *)
(* functions it attaches to the editor.                                    *)
(*                                                                         *)
(* Spec    : one run of withSlate on an editor, step by step.              *)
(* OptSpec : the option lookup functions called on a constructed editor.   *)
(***************************************************************************)
EXTENDS Integers, Sequences, FiniteSets, TLC

VARIABLES
  pc,        \* position of the run of withSlate
  e0,        \* the editor as it was handed to withSlate
  ed,        \* the editor object: id, key, isFallback, attached, children, selection
  args,      \* the options withSlate was called with
  root,      \* rootPluginInstance
  pluginList,\* editor.pluginList after resolution
  registry,  \* resolved plugins: key -> [options, store]
  target,    \* the local `target` of the auto-select branch
  stages,    \* the pipeline steps executed so far, in order
  calls,     \* the collaborator calls made so far, in order
  raised,    \* the error that left withSlate, or "none"
  returned,  \* whether withSlate has returned the editor
  before,    \* the registry before the last option call
  lastCall,  \* the last option call
  ret,       \* its return value
  reported   \* the diagnostics it reported through editor.api.debug.error

vars == <<pc, e0, ed, args, root, pluginList, registry, target, stages, calls,
          raised, returned, before, lastCall, ret, reported>>

pipeVars == <<pc, e0, ed, args, root, pluginList, target, stages, calls,
              raised, returned>>

optVars == <<before, lastCall, ret, reported>>

----------------------------------------------------------------------------
(* Bounds *)

\* longest document (node list) and longest markup string (tag list) supplied
MaxLen == 2

----------------------------------------------------------------------------
(* Values *)

Undefined == "undefined"

\* a JS value used as a condition
Truthy(x) == x \notin {"undefined", "false", "null"}

\* top-level nodes of a document: an empty paragraph, a heading holding two
\* characters, a bare text node of three characters
Nodes == {"p", "h", "t"}

\* the pieces of a markup string
Tags == {"<p>", "<h1>", "txt"}

RECURSIVE SeqsUpTo(_, _)
SeqsUpTo(S, n) ==
  IF n = 0 THEN {<<>>}
  ELSE LET shorter == SeqsUpTo(S, n - 1)
       IN  shorter \cup {Append(s, x) : s \in {t \in shorter : Len(t) = n - 1}, x \in S}

Docs == SeqsUpTo(Nodes, MaxLen)

Markups == SeqsUpTo(Tags, MaxLen)

\* the `value` option: omitted, a markup string, or a structured tree
ValueArgs ==
  {[kind |-> "undefined", body |-> <<>>]}
    \cup {[kind |-> "string", body |-> m] : m \in Markups}
    \cup {[kind |-> "tree", body |-> d] : d \in Docs}

\* JS truthiness of `value`: an array is truthy even when empty, a string
\* only when it is non-empty
ValueTruthy(v) ==
  \/ v.kind = "tree"
  \/ v.kind = "string" /\ v.body # <<>>

\* a point is <<index of the top-level node, offset>>; a selection is
\* <<anchor, focus>>, and <<>> is the null selection
NoSelection == <<>>

Collapsed(point) == <<point, point>>

ExplicitSelection == <<<<0, 0>>, <<0, 1>>>>

OldSelection == <<<<0, 2>>, <<0, 0>>>>

\* the `selection` option: omitted, null, or a range
SelectionArgs == {"undefined", "null", "range"}

AutoSelectArgs == {"undefined", "false", "true", "start", "end"}

IdArgs == {"undefined", "myId"}

Randoms == {"r1", "r2"}

----------------------------------------------------------------------------
(* Collaborators of withSlate (their code is outside withSlate.ts) *)

\* getCorePlugins({ maxLength, plugins }): the built-in plugins
CorePlugins == <<"debug", "html">>

\* the plugin descriptors a caller can pass, and their child plugins
UserPlugins == {"user", "self", "cycA", "cycB"}

PluginChildren(k) ==
  CASE k = "self" -> <<"self">>
    [] k = "cycA" -> <<"cycB">>
    [] k = "cycB" -> <<"cycA">>
    [] OTHER -> <<>>

PluginArgs == {<<>>, <<"user">>, <<"self">>, <<"cycA">>}

Range(s) == {s[i] : i \in 1..Len(s)}

\* the plugins reachable from the plugins ks through at most n child links
RECURSIVE Descendants(_, _)
Descendants(ks, n) ==
  IF n = 0 THEN ks
  ELSE Descendants(ks \cup UNION {Range(PluginChildren(k)) : k \in ks}, n - 1)

\* a plugin that directly or transitively lists itself as a child
ListsItself(k) ==
  k \in Descendants(Range(PluginChildren(k)), Cardinality(UserPlugins))

\* resolvePlugins rejects a plugin tree holding such a plugin
HasCycle(rootPlugin) ==
  \E k \in Descendants(Range(rootPlugin.plugins), Cardinality(UserPlugins)) :
    ListsItself(k)

\* the flattened registry order: the children of the root, then the root
Flatten(rootPlugin) == Append(rootPlugin.plugins, rootPlugin.key)

\* editor.api.html.deserialize({ element }): one node per piece of markup
DeserializeTag(t) ==
  CASE t = "<p>" -> "p"
    [] t = "<h1>" -> "h"
    [] OTHER -> "t"

Deserialize(markup) == [i \in 1..Len(markup) |-> DeserializeTag(markup[i])]

\* editor.api.create.value(): the minimal valid document, one empty paragraph
CreateValue == <<"p">>

TextLen(node) ==
  CASE node = "p" -> 0
    [] node = "h" -> 2
    [] OTHER -> 3

\* getStartPoint(editor, []) and getEndPoint(editor, [])
GetStartPoint(doc) == <<0, 0>>

GetEndPoint(doc) ==
  IF doc = <<>> THEN <<0, 0>> ELSE <<Len(doc) - 1, TextLen(doc[Len(doc)])>>

\* select(editor, target): a selection collapsed at the point
Select(point) == Collapsed(point)

\* the normalizeInitialValue hook of the plugin "user": bare text at the top
\* level is wrapped into a paragraph
HookedPlugins == {"user"}

WrapText(doc) == [i \in 1..Len(doc) |-> IF doc[i] = "t" THEN "p" ELSE doc[i]]

\* pipeNormalizeInitialValue(editor): runs the hook of every resolved plugin
\* that has one
PipeNormalizeInitialValue(doc, list) ==
  IF Range(list) \cap HookedPlugins # {} THEN WrapText(doc) ELSE doc

\* normalizeEditor(editor, { force: true }): bare text at the top level is
\* removed, the document tree alone is touched
NormalizeEditor(doc) == SelectSeq(doc, LAMBDA n : n # "t")

----------------------------------------------------------------------------
(* Option stores (created per plugin by resolution) *)

\* option fields; "x" is a field no store declares
Fields == {"a", "b", "x"}

\* the names besides the field names that store.get and store.set carry
\* (store.get.state, store.set.state, store.set.mergeState)
StoreGetNames == {"state"}

StoreSetNames == {"state", "mergeState"}

OptionKeys == Fields \cup StoreSetNames

Values == {"v0", "v1"}

Absent == "absent"

\* a mapping names some of the fields
Mappings == [Fields -> Values \cup {Absent}]

EmptyMap == [f \in Fields |-> Absent]

DefaultOptions == [a |-> "v0", b |-> "v1", x |-> Absent]

\* the plugins resolved with a reactive options store, and the fields it declares
ReactivePlugins == {"user"}

DeclaredFields == {"a", "b"}

NoStore == [present |-> FALSE, declared |-> {}, state |-> EmptyMap]

NewStore == [present |-> TRUE, declared |-> DeclaredFields, state |-> DefaultOptions]

\* the registry resolution leaves on the editor
ResolvedRegistry(list) ==
  [k \in Range(list) |->
     [options |-> DefaultOptions,
      store |-> IF k \in ReactivePlugins THEN NewStore ELSE NoStore]]

\* store.set.mergeState(patch): the fields the patch names are overwritten
MergeState(state, patch) ==
  [f \in Fields |-> IF patch[f] # Absent THEN patch[f] ELSE state[f]]

\* the functions handed to store.set.state
StateFns == {"clear", "dropB", "setA"}

ApplyFn(fn, state) ==
  CASE fn = "clear" -> EmptyMap
    [] fn = "dropB" -> [state EXCEPT !["b"] = Absent]
    [] OTHER -> [state EXCEPT !["a"] = "v1"]

\* store.set.state(fn): the whole state is replaced by fn(state)
ReplaceState(state, fn) == ApplyFn(fn, state)

\* reading a field of a mapping, as JS does
ReadField(map, key) ==
  IF key \in Fields /\ map[key] # Absent THEN map[key] ELSE Undefined

RetValue(v) == [kind |-> "value", val |-> v, st |-> EmptyMap]

RetState(s) == [kind |-> "state", val |-> Undefined, st |-> s]

RetUndefined == RetValue(Undefined)

----------------------------------------------------------------------------
(* withSlate: one action per step of the function body *)

\* the editors withSlate is handed: a fresh one (createTEditor: no key, an
\* empty document, no selection) or one already in use, with a key, a
\* document and possibly a selection
Editors ==
  {[id |-> "slate1", key |-> Undefined, isFallback |-> Undefined,
    attached |-> {}, children |-> <<>>, selection |-> NoSelection]}
    \cup {[id |-> "slate1", key |-> "k0", isFallback |-> Undefined,
           attached |-> {}, children |-> <<"h">>, selection |-> s] :
            s \in {NoSelection, OldSelection}}

NoArgs ==
  [autoSelect |-> Undefined, id |-> Undefined, plugins |-> <<>>,
   rootPlugin |-> FALSE, selection |-> Undefined,
   shouldNormalizeEditor |-> FALSE, value |-> [kind |-> "undefined", body |-> <<>>]]

NoRoot == [key |-> "none", priority |-> 0, plugins |-> <<>>, configured |-> FALSE]

NoCall ==
  [op |-> "none", plugin |-> "none", key |-> "none", value |-> Undefined,
   patch |-> EmptyMap, fn |-> "none"]

Init ==
  /\ pc = "idle"
  /\ e0 \in Editors
  /\ ed = e0
  /\ args = NoArgs
  /\ root = NoRoot
  /\ pluginList = <<>>
  /\ registry = ResolvedRegistry(<<>>)
  /\ target = <<>>
  /\ stages = <<>>
  /\ calls = <<>>
  /\ raised = "none"
  /\ returned = FALSE
  /\ before = ResolvedRegistry(<<>>)
  /\ lastCall = NoCall
  /\ ret = RetUndefined
  /\ reported = <<>>

\* withSlate(e, options): the options are destructured, plugins defaulting to []
Call ==
  /\ pc = "idle"
  /\ \E a \in AutoSelectArgs, i \in IdArgs, p \in PluginArgs, r \in BOOLEAN,
        s \in SelectionArgs, n \in BOOLEAN, v \in ValueArgs :
       args' = [autoSelect |-> a, id |-> i, plugins |-> p, rootPlugin |-> r,
                selection |-> s, shouldNormalizeEditor |-> n, value |-> v]
  /\ pc' = "identity"
  /\ UNCHANGED <<e0, ed, root, pluginList, registry, target, stages, calls,
                 raised, returned>>
  /\ UNCHANGED optVars

\* a ?? b
Coalesce(a, b) == IF a \in {"undefined", "null"} THEN b ELSE a

\* editor.id = id ?? editor.id; editor.key = editor.key ?? Math.random();
\* editor.isFallback = false
WithIdentity(e, id, random) ==
  [e EXCEPT !.id = Coalesce(id, e.id),
            !.key = Coalesce(e.key, random),
            !.isFallback = "false"]

AssignIdentity ==
  /\ pc = "identity"
  /\ \E random \in Randoms : ed' = WithIdentity(ed, args.id, random)
  /\ stages' = Append(stages, "identity")
  /\ pc' = "attach"
  /\ UNCHANGED <<e0, args, root, pluginList, registry, target, calls, raised,
                 returned>>
  /\ UNCHANGED optVars


\* mutant: setOptions is attached only after resolution
LookupFunctionsLate ==
  {"getApi", "getTransforms", "getPlugin", "getType", "getInjectProps",
   "getOptionsStore", "getOptions", "getOption", "setOption"}

\* the functions withSlate assigns to the editor
LookupFunctions ==
  {"getApi", "getTransforms", "getPlugin", "getType", "getInjectProps",
   "getOptionsStore", "getOptions", "getOption", "setOption", "setOptions"}

AttachLookups ==
  /\ pc = "attach"
  /\ ed' = [ed EXCEPT !.attached = @ \cup LookupFunctions]
  /\ stages' = Append(stages, "attach")
  /\ pc' = "assemble"
  /\ UNCHANGED <<e0, args, root, pluginList, registry, target, calls, raised,
                 returned>>
  /\ UNCHANGED optVars

RootPriority == 10000

\* createSlatePlugin({ key: 'root', priority, ...pluginConfig,
\* plugins: [...corePlugins, ...plugins] }), then rootPlugin(...) if given
RootPluginInstance(plugins, rootPlugin) ==
  [key |-> "root", priority |-> RootPriority,
   plugins |-> CorePlugins \o plugins, configured |-> rootPlugin]

AssembleRoot ==
  /\ pc = "assemble"
  /\ root' = RootPluginInstance(args.plugins, args.rootPlugin)
  /\ calls' = Append(calls, "getCorePlugins")
  /\ stages' = Append(stages, "assemble")
  /\ pc' = "resolve"
  /\ UNCHANGED <<e0, ed, args, pluginList, registry, target, raised, returned>>
  /\ UNCHANGED optVars

\* resolvePlugins(editor, [rootPluginInstance]): a structural error leaves
\* withSlate at once, nothing after the call runs
ResolvePlugins ==
  /\ pc = "resolve"
  /\ stages' = Append(stages, "resolve")
  /\ calls' = Append(calls, "resolvePlugins")
  /\ IF HasCycle(root)
       THEN /\ raised' = "ConfigurationError"
            /\ pc' = "aborted"
            /\ UNCHANGED <<pluginList, registry>>
       ELSE /\ pluginList' = Flatten(root)
            /\ registry' = ResolvedRegistry(Flatten(root))
            /\ pc' = "seedContent"
            /\ UNCHANGED raised
  /\ UNCHANGED <<e0, ed, args, root, target, returned>>
  /\ UNCHANGED optVars


\* mutant: an empty document is kept as it is
SeededChildrenKeepsEmpty(value, current) ==
  IF value.kind = "string" THEN Deserialize(value.body)
  ELSE IF ValueTruthy(value) THEN value.body
  ELSE current

\* mutant: a markup string is installed as if it were a tree
SeededChildrenRawString(value, current) ==
  LET seeded == IF value.kind = "undefined" THEN current ELSE value.body
  IN  IF Len(seeded) = 0 THEN CreateValue ELSE seeded

\* lines 197-204: the document after content seeding
SeededChildren(value, current) ==
  LET seeded == IF value.kind = "string" THEN Deserialize(value.body)
                ELSE IF ValueTruthy(value) THEN value.body
                ELSE current
  IN  IF Len(seeded) = 0 THEN CreateValue ELSE seeded

\* the collaborator calls of content seeding
SeedingCalls(value, current) ==
  LET seeded == IF value.kind = "string" THEN Deserialize(value.body)
                ELSE IF ValueTruthy(value) THEN value.body
                ELSE current
  IN  (IF value.kind = "string" THEN <<"html.deserialize">> ELSE <<>>)
        \o (IF Len(seeded) = 0 THEN <<"create.value">> ELSE <<>>)

SeedContent ==
  /\ pc = "seedContent"
  /\ ed' = [ed EXCEPT !.children = SeededChildren(args.value, ed.children)]
  /\ calls' = calls \o SeedingCalls(args.value, ed.children)
  /\ stages' = Append(stages, "seedContent")
  /\ pc' = "seedSelection"
  /\ UNCHANGED <<e0, args, root, pluginList, registry, target, raised, returned>>
  /\ UNCHANGED optVars


\* mutant: only 'end' selects the end, true selects the start
EdgeTrueIsStart(autoSelect) == IF autoSelect = "end" THEN "end" ELSE "start"

\* line 208: const edge = autoSelect === 'start' ? 'start' : 'end'
Edge(autoSelect) == IF autoSelect = "start" THEN "start" ELSE "end"

\* lines 209-210: the point auto-select computes
TargetPoint(autoSelect, doc) ==
  IF Edge(autoSelect) = "start" THEN GetStartPoint(doc) ELSE GetEndPoint(doc)


\* mutant: auto-select is looked at before the explicit selection
SeededSelectionAutoFirst(selection, autoSelect, current, doc) ==
  IF Truthy(autoSelect) THEN Select(TargetPoint(autoSelect, doc))
  ELSE IF selection = "range" THEN ExplicitSelection
  ELSE current

\* lines 205-212: the selection after selection seeding
SeededSelection(selection, autoSelect, current, doc) ==
  IF selection = "range" THEN ExplicitSelection
  ELSE IF Truthy(autoSelect) THEN Select(TargetPoint(autoSelect, doc))
  ELSE current

\* the collaborator calls of selection seeding
SelectionCalls(selection, autoSelect) ==
  IF selection = "range" THEN <<>>
  ELSE IF Truthy(autoSelect)
    THEN <<IF Edge(autoSelect) = "start" THEN "getStartPoint" ELSE "getEndPoint",
           "select">>
  ELSE <<>>

SeedSelection ==
  /\ pc = "seedSelection"
  /\ ed' = [ed EXCEPT !.selection =
              SeededSelection(args.selection, args.autoSelect, ed.selection,
                              ed.children)]
  /\ target' = IF args.selection # "range" /\ Truthy(args.autoSelect)
                 THEN TargetPoint(args.autoSelect, ed.children)
                 ELSE target
  /\ calls' = calls \o SelectionCalls(args.selection, args.autoSelect)
  /\ stages' = Append(stages, "seedSelection")
  /\ pc' = "normalizeInitial"
  /\ UNCHANGED <<e0, args, root, pluginList, registry, raised, returned>>
  /\ UNCHANGED optVars

\* line 213: if (value)
RunsInitialNormalization(value) == ValueTruthy(value)

NormalizeInitialValue ==
  /\ pc = "normalizeInitial"
  /\ IF RunsInitialNormalization(args.value)
       THEN /\ ed' = [ed EXCEPT !.children =
                        PipeNormalizeInitialValue(ed.children, pluginList)]
            /\ calls' = Append(calls, "pipeNormalizeInitialValue")
            /\ stages' = Append(stages, "normalizeInitial")
       ELSE UNCHANGED <<ed, calls, stages>>
  /\ pc' = "normalizeEditor"
  /\ UNCHANGED <<e0, args, root, pluginList, registry, target, raised, returned>>
  /\ UNCHANGED optVars

\* line 216: if (shouldNormalizeEditor)
RunsForcedNormalization(shouldNormalizeEditor) == shouldNormalizeEditor

ForceNormalize ==
  /\ pc = "normalizeEditor"
  /\ IF RunsForcedNormalization(args.shouldNormalizeEditor)
       THEN /\ ed' = [ed EXCEPT !.children = NormalizeEditor(ed.children)]
            /\ calls' = Append(calls, "normalizeEditor")
            /\ stages' = Append(stages, "normalizeEditor")
       ELSE UNCHANGED <<ed, calls, stages>>
  /\ pc' = "return"
  /\ UNCHANGED <<e0, args, root, pluginList, registry, target, raised, returned>>
  /\ UNCHANGED optVars

\* line 224: return editor
Return ==
  /\ pc = "return"
  /\ returned' = TRUE
  /\ pc' = "done"
  /\ UNCHANGED <<e0, ed, args, root, pluginList, registry, target, stages,
                 calls, raised>>
  /\ UNCHANGED optVars

Next ==
  \/ Call
  \/ AssignIdentity
  \/ AttachLookups
  \/ AssembleRoot
  \/ ResolvePlugins
  \/ SeedContent
  \/ SeedSelection
  \/ NormalizeInitialValue
  \/ ForceNormalize
  \/ Return

Spec == Init /\ [][Next]_vars

----------------------------------------------------------------------------
(* The option lookup functions attached to the editor (lines 123-174) *)

\* editor.getOptionsStore(plugin)
GetOptionsStore(reg, plugin) == reg[plugin].store

\* editor.getOptions(plugin)
GetOptionsValue(reg, plugin) ==
  IF ~GetOptionsStore(reg, plugin).present
    THEN RetState(reg[plugin].options)
    ELSE RetState(GetOptionsStore(reg, plugin).state)

\* store.get[key] and store.set[key] exist
HasGetter(store, key) == key \in store.declared \cup StoreGetNames

HasSetter(store, key) == key \in store.declared \cup StoreSetNames

\* editor.getOption(plugin, key): the value returned
GetOptionValue(reg, plugin, key) ==
  LET store == GetOptionsStore(reg, plugin)
  IN  IF ~store.present THEN RetValue(ReadField(reg[plugin].options, key))
      ELSE IF HasGetter(store, key)
        THEN IF key = "state" THEN RetState(store.state)
             ELSE RetValue(ReadField(store.state, key))
      ELSE RetUndefined

\* editor.getOption(plugin, key): the diagnostics reported
GetOptionReports(reg, plugin, key) ==
  LET store == GetOptionsStore(reg, plugin)
  IN  IF store.present /\ ~HasGetter(store, key)
        THEN <<"OPTION_UNDEFINED">> ELSE <<>>


\* mutant: the test for a missing store is inverted, a plain bag is written
SetOptionRegistryInverted(reg, call) ==
  LET store == GetOptionsStore(reg, call.plugin)
  IN  IF store.present THEN reg
      ELSE IF call.key \in Fields
        THEN [reg EXCEPT ![call.plugin].options[call.key] = call.value]
      ELSE reg

\* editor.setOption(plugin, key, value): the registry afterwards; call holds
\* the value in the shape the setter named by key takes
SetOptionRegistry(reg, call) ==
  LET store == GetOptionsStore(reg, call.plugin)
  IN  IF ~store.present THEN reg
      ELSE IF HasSetter(store, call.key)
        THEN [reg EXCEPT ![call.plugin].store.state =
                CASE call.key = "state" -> ReplaceState(@, call.fn)
                  [] call.key = "mergeState" -> MergeState(@, call.patch)
                  [] OTHER -> [@ EXCEPT ![call.key] = call.value]]
      ELSE reg

\* editor.setOption(plugin, key, value): the diagnostics reported
SetOptionReports(reg, call) ==
  LET store == GetOptionsStore(reg, call.plugin)
  IN  IF store.present /\ ~HasSetter(store, call.key)
        THEN <<"OPTION_UNDEFINED">> ELSE <<>>


\* mutant: a plain mapping replaces the whole state instead of being merged
SetOptionsRegistryReplaces(reg, call) ==
  LET store == GetOptionsStore(reg, call.plugin)
  IN  IF ~store.present THEN reg
      ELSE IF call.key = "object"
        THEN [reg EXCEPT ![call.plugin].store.state = call.patch]
      ELSE IF call.key = "function"
        THEN [reg EXCEPT ![call.plugin].store.state = ReplaceState(@, call.fn)]
      ELSE reg

\* editor.setOptions(plugin, options): the registry afterwards; call.key is
\* typeof options
SetOptionsRegistry(reg, call) ==
  LET store == GetOptionsStore(reg, call.plugin)
  IN  IF ~store.present THEN reg
      ELSE IF call.key = "object"
        THEN [reg EXCEPT ![call.plugin].store.state = MergeState(@, call.patch)]
      ELSE IF call.key = "function"
        THEN [reg EXCEPT ![call.plugin].store.state = ReplaceState(@, call.fn)]
      ELSE reg

\* the values setOption is called with: a plain value for a field, and for
\* the names "mergeState" and "state" a value of the kind that setter takes
SetOptionCalls(plugin) ==
  {[op |-> "setOption", plugin |-> plugin, key |-> k, value |-> v,
    patch |-> EmptyMap, fn |-> "none"] : k \in Fields, v \in Values}
    \cup {[op |-> "setOption", plugin |-> plugin, key |-> "mergeState",
           value |-> Undefined, patch |-> m, fn |-> "none"] : m \in Mappings}
    \cup {[op |-> "setOption", plugin |-> plugin, key |-> "state",
           value |-> Undefined, patch |-> EmptyMap, fn |-> f] : f \in StateFns}

\* the values setOptions is called with: a plain mapping, a function, or
\* something that is neither (a number, undefined)
SetOptionsCalls(plugin) ==
  {[op |-> "setOptions", plugin |-> plugin, key |-> "object",
    value |-> Undefined, patch |-> m, fn |-> "none"] : m \in Mappings}
    \cup {[op |-> "setOptions", plugin |-> plugin, key |-> "function",
           value |-> Undefined, patch |-> EmptyMap, fn |-> f] : f \in StateFns}
    \cup {[op |-> "setOptions", plugin |-> plugin, key |-> "other",
           value |-> Undefined, patch |-> EmptyMap, fn |-> "none"]}

GetOptions ==
  /\ returned
  /\ \E plugin \in DOMAIN registry :
       /\ lastCall' = [NoCall EXCEPT !.op = "getOptions", !.plugin = plugin]
       /\ ret' = GetOptionsValue(registry, plugin)
  /\ before' = registry
  /\ reported' = <<>>
  /\ UNCHANGED registry
  /\ UNCHANGED pipeVars

GetOption ==
  /\ returned
  /\ \E plugin \in DOMAIN registry, key \in OptionKeys :
       /\ lastCall' = [NoCall EXCEPT !.op = "getOption", !.plugin = plugin,
                                     !.key = key]
       /\ ret' = GetOptionValue(registry, plugin, key)
       /\ reported' = GetOptionReports(registry, plugin, key)
  /\ before' = registry
  /\ UNCHANGED registry
  /\ UNCHANGED pipeVars

SetOption ==
  /\ returned
  /\ \E plugin \in DOMAIN registry :
       \E call \in SetOptionCalls(plugin) :
         /\ lastCall' = call
         /\ registry' = SetOptionRegistry(registry, call)
         /\ reported' = SetOptionReports(registry, call)
  /\ before' = registry
  /\ ret' = RetUndefined
  /\ UNCHANGED pipeVars

SetOptions ==
  /\ returned
  /\ \E plugin \in DOMAIN registry :
       \E call \in SetOptionsCalls(plugin) :
         /\ lastCall' = call
         /\ registry' = SetOptionsRegistry(registry, call)
  /\ before' = registry
  /\ reported' = <<>>
  /\ ret' = RetUndefined
  /\ UNCHANGED pipeVars

\* an editor constructed by createSlateEditor({ plugins: [user] })
ConstructedEditor ==
  [id |-> "slate1", key |-> "r1", isFallback |-> "false",
   attached |-> LookupFunctions, children |-> CreateValue,
   selection |-> NoSelection]

OptInit ==
  /\ pc = "done"
  /\ e0 = [id |-> "slate1", key |-> Undefined, isFallback |-> Undefined,
           attached |-> {}, children |-> <<>>, selection |-> NoSelection]
  /\ ed = ConstructedEditor
  /\ args = [NoArgs EXCEPT !.plugins = <<"user">>]
  /\ root = RootPluginInstance(<<"user">>, FALSE)
  /\ pluginList = Flatten(root)
  /\ registry = ResolvedRegistry(pluginList)
  /\ target = <<>>
  /\ stages = <<"identity", "attach", "assemble", "resolve", "seedContent",
                "seedSelection">>
  /\ calls = <<"getCorePlugins", "resolvePlugins", "create.value">>
  /\ raised = "none"
  /\ returned = TRUE
  /\ before = ResolvedRegistry(<<>>)
  /\ lastCall = NoCall
  /\ ret = RetUndefined
  /\ reported = <<>>

OptNext ==
  \/ GetOptions
  \/ GetOption
  \/ SetOption
  \/ SetOptions

OptSpec == OptInit /\ [][OptNext]_vars

\* the state OptSpec starts in is a state a run of withSlate ends in
OptInitReached == ~OptInit

----------------------------------------------------------------------------
(* Claims about the option lookup functions, checked under OptSpec *)

HasStore(reg, plugin) == GetOptionsStore(reg, plugin).present

\* C1: with a reactive store that declares the field, getOption after
\* setOption(plugin, field, v) returns v; with a plain options bag setOption
\* changes nothing and getOption returns the default of the field, whatever
\* setOption and setOptions calls were made.
C1_SetThenGet ==
  /\ (lastCall.op = "setOption"
        /\ HasStore(before, lastCall.plugin)
        /\ lastCall.key \in GetOptionsStore(before, lastCall.plugin).declared)
       => GetOptionValue(registry, lastCall.plugin, lastCall.key)
            = RetValue(lastCall.value)
  /\ (lastCall.op = "setOption" /\ ~HasStore(before, lastCall.plugin))
       => registry = before /\ reported = <<>>
  /\ \A plugin \in DOMAIN registry :
       ~HasStore(registry, plugin) =>
         \A key \in Fields :
           GetOptionValue(registry, plugin, key)
             = RetValue(ReadField(DefaultOptions, key))

C1_Witness ==
  /\ lastCall.op = "setOption"
  /\ lastCall.plugin = "user"
  /\ lastCall.key = "a"
  /\ lastCall.value = "v1"
  /\ before["user"].store.state["a"] = "v0"
  /\ registry["user"].store.state["a"] = "v1"

\* C2: with a reactive store, getOption and setOption on a field the store
\* does not declare never throw and never change the store: each reports one
\* OPTION_UNDEFINED diagnostic, getOption returns undefined, setOption does
\* nothing else.
C2_UndeclaredIsSoft ==
  (lastCall.op \in {"getOption", "setOption"}
     /\ HasStore(before, lastCall.plugin)
     /\ lastCall.key \notin GetOptionsStore(before, lastCall.plugin).declared)
    => /\ raised = "none"
       /\ registry = before
       /\ reported = <<"OPTION_UNDEFINED">>
       /\ lastCall.op = "getOption" => ret = RetUndefined

\* C3: setOptions on a reactive store merges a plain mapping into the state
\* (fields the patch does not name keep their values) and replaces the whole
\* state by patch(state) when the patch is a function; on a plain options
\* bag it is a no-op and getOptions returns the same bag before and after.
C3_SetOptions ==
  lastCall.op = "setOptions" =>
    LET plugin == lastCall.plugin
        old == GetOptionsStore(before, plugin).state
        new == GetOptionsStore(registry, plugin).state
    IN  /\ \A other \in DOMAIN registry \ {plugin} :
             registry[other] = before[other]
        /\ registry[plugin].options = before[plugin].options
        /\ IF HasStore(before, plugin)
             THEN /\ lastCall.key = "object" =>
                       \A f \in Fields :
                         new[f] = IF lastCall.patch[f] # Absent
                                    THEN lastCall.patch[f] ELSE old[f]
                  /\ lastCall.key = "function" => new = ApplyFn(lastCall.fn, old)
                  /\ GetOptionsValue(registry, plugin) = RetState(new)
             ELSE /\ registry = before
                  /\ GetOptionsValue(registry, plugin)
                       = GetOptionsValue(before, plugin)
                  /\ GetOptionsValue(registry, plugin) = RetState(DefaultOptions)

C3_Witness ==
  /\ lastCall.op = "setOptions"
  /\ lastCall.plugin = "user"
  /\ lastCall.key = "object"
  /\ lastCall.patch = [a |-> "v1", b |-> Absent, x |-> "v0"]
  /\ before["user"].store.state = [a |-> "v0", b |-> "v0", x |-> Absent]
  /\ registry["user"].store.state = [a |-> "v1", b |-> "v0", x |-> "v0"]

----------------------------------------------------------------------------
(* Claims about the construction pipeline, checked under Spec *)

Count(seq, x) == Cardinality({i \in 1..Len(seq) : seq[i] = x})

\* selection seeding has run
AfterSelection == pc \in {"normalizeInitial", "normalizeEditor", "return", "done"}

\* what content seeding starts from, before the test for an empty document
RawSeed ==
  IF args.value.kind = "string" THEN Deserialize(args.value.body)
  ELSE IF args.value.kind = "tree" THEN args.value.body
  ELSE e0.children

\* C4: an empty structured initial value yields the non-empty default
\* document of create.value; whenever the document is an empty list after
\* content seeding it is replaced by the default document before selection
\* seeding and normalization.
C4_EmptyFallback ==
  /\ pc = "seedSelection" =>
       /\ ed.children # <<>>
       /\ RawSeed = <<>> => ed.children = CreateValue
  /\ (returned /\ args.value = [kind |-> "tree", body |-> <<>>]) =>
       /\ ed.children = CreateValue
       /\ Len(ed.children) >= 1

C4_Witness ==
  /\ returned
  /\ args.value = [kind |-> "tree", body |-> <<>>]
  /\ e0.children = <<"h">>
  /\ ed.children = CreateValue
  /\ Count(calls, "create.value") = 1

\* C5 as stated: with no explicit selection, autoSelect 'start' selects the
\* start point of the document, 'end' or true its end point, and with
\* autoSelect omitted or false the constructed editor has no selection.
C5_AutoSelect ==
  (AfterSelection /\ args.selection # "range") =>
    /\ args.autoSelect = "start" =>
         /\ ed.selection = Collapsed(target)
         /\ pc = "normalizeInitial" => target = GetStartPoint(ed.children)
    /\ args.autoSelect \in {"end", "true"} =>
         /\ ed.selection = Collapsed(target)
         /\ pc = "normalizeInitial" => target = GetEndPoint(ed.children)
    /\ args.autoSelect \in {"undefined", "false"} => ed.selection = NoSelection

\* C5 amended: with no explicit selection, autoSelect 'start' selects the
\* start point and 'end' or true the end point of the document as it stands
\* when selection seeding runs; with autoSelect omitted or false withSlate
\* selects nothing and the selection is the one the editor came with.
C5_AutoSelectKeepsSelection ==
  (AfterSelection /\ args.selection # "range") =>
    /\ args.autoSelect = "start" =>
         /\ ed.selection = Collapsed(target)
         /\ pc = "normalizeInitial" => target = GetStartPoint(ed.children)
    /\ args.autoSelect \in {"end", "true"} =>
         /\ ed.selection = Collapsed(target)
         /\ pc = "normalizeInitial" => target = GetEndPoint(ed.children)
    /\ args.autoSelect \in {"undefined", "false"} =>
         /\ ed.selection = e0.selection
         /\ target = <<>>

C5_Witness ==
  /\ returned
  /\ args.selection = "undefined"
  /\ args.autoSelect = "true"
  /\ e0.selection = OldSelection
  /\ args.value = [kind |-> "tree", body |-> <<"p", "h">>]
  /\ ed.selection = <<<<1, 2>>, <<1, 2>>>>

\* C6 as stated: for a markup string s as initial value the document of the
\* returned editor equals html.deserialize(s), whatever the other options.
C6_MarkupRoundTrip ==
  (returned /\ args.value.kind = "string") =>
    ed.children = Deserialize(args.value.body)

\* C6 amended: for a markup string s as initial value the document right
\* after content seeding equals html.deserialize(s) when that tree is not
\* empty and the default document of create.value when it is, whatever the
\* other options; the normalization passes that follow may change it.
C6_MarkupSeeding ==
  (pc = "seedSelection" /\ args.value.kind = "string") =>
    /\ Count(calls, "html.deserialize") = 1
    /\ ed.children = IF Deserialize(args.value.body) = <<>>
                       THEN CreateValue
                       ELSE Deserialize(args.value.body)

C6_Witness ==
  /\ pc = "seedSelection"
  /\ args.value = [kind |-> "string", body |-> <<"<h1>", "txt">>]
  /\ ed.children = <<"h", "t">>

\* C7: when plugin resolution fails with a structural error, construction
\* aborts, no editor is returned and the editor handed to withSlate has not
\* been mutated at all.
C7_NoMutationOnError ==
  raised = "ConfigurationError" =>
    /\ ~returned
    /\ ed = e0

StageRank(stage) ==
  CASE stage = "identity" -> 1
    [] stage = "attach" -> 2
    [] stage = "assemble" -> 3
    [] stage = "resolve" -> 4
    [] stage = "seedContent" -> 5
    [] stage = "seedSelection" -> 6
    [] stage = "normalizeInitial" -> 7
    [] OTHER -> 8

\* the lookup functions C8 names
NamedLookups ==
  {"getPlugin", "getType", "getOptions", "getOption", "setOption",
   "setOptions", "getApi", "getTransforms"}

\* C8: the steps of withSlate run in the order identity, attachment of the
\* lookup functions, root assembly, resolution, content seeding, selection
\* seeding, initial-value normalization, forced normalization, each at most
\* once and all before the call returns; forced normalization runs only if
\* shouldNormalizeEditor was given; no lookup function is missing when
\* resolution starts.
C8_StepOrder ==
  /\ \A i, j \in 1..Len(stages) :
       i < j => StageRank(stages[i]) < StageRank(stages[j])
  /\ pc = "resolve" => NamedLookups \subseteq ed.attached
  /\ \A i \in 1..Len(stages) :
       stages[i] = "resolve" =>
         /\ i = 4
         /\ SubSeq(stages, 1, 3) = <<"identity", "attach", "assemble">>
  /\ returned =>
       /\ pc = "done"
       /\ SubSeq(stages, 1, 6) = <<"identity", "attach", "assemble", "resolve",
                                   "seedContent", "seedSelection">>
       /\ Count(stages, "normalizeEditor")
            = IF args.shouldNormalizeEditor THEN 1 ELSE 0
       /\ Count(calls, "normalizeEditor")
            = IF args.shouldNormalizeEditor THEN 1 ELSE 0
       /\ args.shouldNormalizeEditor => stages[Len(stages)] = "normalizeEditor"
  /\ pc # "done" => ~returned

C8_Witness ==
  /\ returned
  /\ stages = <<"identity", "attach", "assemble", "resolve", "seedContent",
                "seedSelection", "normalizeInitial", "normalizeEditor">>

\* C9: pipeNormalizeInitialValue runs exactly once whenever initial content
\* was supplied, as a tree or as a markup string, an empty tree and an empty
\* string included, and does not run when none was supplied.
C9_NormalizesSuppliedContent ==
  returned =>
    Count(calls, "pipeNormalizeInitialValue")
      = IF args.value.kind # "undefined" THEN 1 ELSE 0

\* C10: an explicit selection becomes the selection of the constructed
\* editor for every value of autoSelect, and no start or end point is
\* computed or selected; auto-select acts only without an explicit
\* selection.
C10_ExplicitSelection ==
  /\ (AfterSelection /\ args.selection = "range") =>
       /\ ed.selection = ExplicitSelection
       /\ target = <<>>
       /\ Count(calls, "getStartPoint") = 0
       /\ Count(calls, "getEndPoint") = 0
       /\ Count(calls, "select") = 0
  /\ Count(calls, "select") > 0 => args.selection # "range"

C10_Witness ==
  /\ returned
  /\ args.selection = "range"
  /\ args.autoSelect = "start"
  /\ e0.selection = OldSelection
  /\ ed.selection = ExplicitSelection

====
